---- MODULE Spec2Model ----
(***************************************************************************)
(* A model of landlab's LinearDiffuser component                           *)
(* (src/landlab/components/diffusion/diffusion.py): construction,          *)
(* updated_boundary_conditions, diffuse / run_one_step and time_step, on   *)
(* a small uniform raster grid, in exact rational arithmetic.              *)
(***************************************************************************)
EXTENDS Integers, Sequences, FiniteSets, TLC

(***************************************************************************)
(* Bounds of the model.                                                    *)
(***************************************************************************)
\* rows of the raster grid
NROWS == 3
\* columns of the raster grid
NCOLS == 5
\* at most this many sub-steps of diffuse are run in one behaviour
MaxSubsteps == 4
\* at most this many calls of the component's owner after construction
MaxCalls == 3
\* the field's values are exact rationals, kept within TLC's integers: a
\* call of diffuse is modelled while the denominators of the field stay at
\* most this
MaxDenominator == 100000000
\* node spacing of the raster grid, RasterModelGrid(shape, 1.)
DX == 1

(***************************************************************************)
(* Exact rationals: <<n, d>> with d > 0 and gcd(n, d) = 1; +infinity is    *)
(* <<1, 0>> (numpy's result of dividing a positive number by zero).        *)
(***************************************************************************)
Abs(i) == IF i < 0 THEN -i ELSE i

RECURSIVE GCD(_, _)
GCD(a, b) == IF b = 0 THEN a ELSE GCD(b, a % b)

Rat(n, d) ==
  LET s == IF d < 0 THEN -1 ELSE 1
      g == GCD(Abs(n), Abs(d))
  IN  IF g = 0 THEN <<0, 1>> ELSE <<(s * n) \div g, (s * d) \div g>>

Zero == <<0, 1>>
One == <<1, 1>>
Inf == <<1, 0>>
IsInf(a) == a[2] = 0

RatInt(i) == <<i, 1>>

RatAdd(a, b) ==
  LET g == GCD(a[2], b[2])
      l == (a[2] \div g) * b[2]
  IN  Rat(a[1] * (l \div a[2]) + b[1] * (l \div b[2]), l)

RatNeg(a) == <<-a[1], a[2]>>

RatSub(a, b) == RatAdd(a, RatNeg(b))

RatMul(a, b) ==
  LET g1 == GCD(Abs(a[1]), b[2])
      g2 == GCD(Abs(b[1]), a[2])
      h1 == IF g1 = 0 THEN 1 ELSE g1
      h2 == IF g2 = 0 THEN 1 ELSE g2
  IN  Rat((a[1] \div h1) * (b[1] \div h2), (a[2] \div h2) * (b[2] \div h1))

\* a / b as numpy divides: a positive number over zero is +inf, a finite
\* number over +inf is zero
RatDiv(a, b) ==
  IF IsInf(b) THEN Zero
  ELSE IF b[1] = 0 THEN Inf
  ELSE RatMul(a, Rat(b[2], b[1]))

RatLess(a, b) ==
  IF IsInf(a) THEN FALSE
  ELSE IF IsInf(b) THEN TRUE
  ELSE a[1] * b[2] < b[1] * a[2]

RatMax(a, b) == IF RatLess(a, b) THEN b ELSE a

RatAbs(a) == <<Abs(a[1]), a[2]>>

\* floor of a finite rational (python's  x // 1.)
RatFloor(a) == a[1] \div a[2]

\* the square root of a rational that is a perfect square (np.sqrt)
RatSqrt(a) ==
  <<CHOOSE r \in 0..Abs(a[1]) : r * r = a[1],
    CHOOSE r \in 1..a[2] : r * r = a[2]>>

RECURSIVE SeqSum(_)
SeqSum(s) == IF s = <<>> THEN Zero ELSE RatAdd(Head(s), SeqSum(Tail(s)))

MinOf(a, b) == IF RatLess(a, b) THEN a ELSE b

RECURSIVE SeqMin(_)
\* np.nanmin of a non-empty array without NaN
SeqMin(s) == IF Len(s) = 1 THEN s[1] ELSE MinOf(SeqMin(Tail(s)), s[1])

RECURSIVE SortedSeq(_)
\* the members of a set of integers in ascending order (np.where order)
SortedSeq(S) ==
  IF S = {} THEN <<>>
  ELSE LET m == CHOOSE x \in S : \A y \in S : x <= y
       IN  <<m>> \o SortedSeq(S \ {m})

Range(s) == {s[i] : i \in DOMAIN s}

\* a[idx], numpy's indexing of an array by an array of indices
TakeAt(a, idx) == [i \in DOMAIN idx |-> a[idx[i]]]

\* np.where(cond, a, b)
Where(cond, a, b) == [i \in DOMAIN cond |-> IF cond[i] THEN a[i] ELSE b[i]]

\* an array as a table of its values, computed once
Evaluated(f) == IF f = f THEN f ELSE f

\* e, evaluated once the arrays a have been computed (the order in which
\* the program computes its intermediate arrays)
Computed(a, e) == IF a = a THEN e ELSE e

(***************************************************************************)
(* The raster grid (the mesh collaborator): node and link numbering of     *)
(* landlab's RasterModelGrid.                                              *)
(***************************************************************************)
number_of_nodes == NROWS * NCOLS
Nodes == 0..(number_of_nodes - 1)
LinksPerRow == 2 * NCOLS - 1
number_of_links == NROWS * (NCOLS - 1) + (NROWS - 1) * NCOLS
Links == 0..(number_of_links - 1)

NodeRow(n) == n \div NCOLS
NodeCol(n) == n % NCOLS
NodeAt(r, c) == r * NCOLS + c

IsHorizontal(l) == (l % LinksPerRow) < NCOLS - 1

node_at_link_tail ==
  Evaluated([l \in Links |->
               LET r == l \div LinksPerRow
                   k == l % LinksPerRow
               IN  IF k < NCOLS - 1 THEN NodeAt(r, k)
                   ELSE NodeAt(r, k - (NCOLS - 1))])

node_at_link_head ==
  Evaluated([l \in Links |->
               IF IsHorizontal(l) THEN node_at_link_tail[l] + 1
               ELSE node_at_link_tail[l] + NCOLS])

length_of_link(l) == RatInt(DX)

IsPerimeter(n) ==
  \/ NodeRow(n) = 0
  \/ NodeRow(n) = NROWS - 1
  \/ NodeCol(n) = 0
  \/ NodeCol(n) = NCOLS - 1

\* the nodes that have a cell
node_at_cell == {n \in Nodes : ~IsPerimeter(n)}

\* cos and sin of grid.angle_of_link(): links point east or north
hozlinkcomp(l) == IF IsHorizontal(l) THEN One ELSE Zero
vertlinkcomp(l) == IF IsHorizontal(l) THEN Zero ELSE One

(***************************************************************************)
(* Boundary classification of the mesh.  A status array gives every node   *)
(* its class; the classes of the links follow from those of their ends.    *)
(***************************************************************************)
CORE_NODE == "core"
FIXED_VALUE_BOUNDARY == "fixed_value"
FIXED_GRADIENT_BOUNDARY == "fixed_gradient"
CLOSED_BOUNDARY == "closed"

\* a fixed link joins a fixed-gradient node and a core node
IsFixedLink(st, l) ==
  LET t == st[node_at_link_tail[l]]
      h == st[node_at_link_head[l]]
  IN  \/ t = FIXED_GRADIENT_BOUNDARY /\ h = CORE_NODE
      \/ h = FIXED_GRADIENT_BOUNDARY /\ t = CORE_NODE

\* an active link joins a core node and a node that is not closed, and is
\* not a fixed link
IsActiveLink(st, l) ==
  LET t == st[node_at_link_tail[l]]
      h == st[node_at_link_head[l]]
  IN  /\ \/ t = CORE_NODE /\ h # CLOSED_BOUNDARY
         \/ h = CORE_NODE /\ t # CLOSED_BOUNDARY
      /\ ~IsFixedLink(st, l)

active_links(st) == SortedSeq({l \in Links : IsActiveLink(st, l)})
fixed_links(st) == SortedSeq({l \in Links : IsFixedLink(st, l)})
node_at_core_cell(st) == {n \in node_at_cell : st[n] = CORE_NODE}

(***************************************************************************)
(* The mesh's operators on node and link arrays (functions on Nodes and    *)
(* Links).                                                                 *)
(***************************************************************************)
RECURSIVE SumOver(_, _)
\* the sum of f over the set S
SumOver(f, S) ==
  IF S = {} THEN Zero
  ELSE LET x == CHOOSE y \in S : TRUE
       IN  RatAdd(f[x], SumOver(f, S \ {x}))

calc_grad_at_link(vals) ==
  [l \in Links |->
     RatDiv(RatSub(vals[node_at_link_head[l]], vals[node_at_link_tail[l]]),
            length_of_link(l))]

map_max_of_link_nodes_to_link(a) ==
  [l \in Links |-> RatMax(a[node_at_link_tail[l]], a[node_at_link_head[l]])]

\* net outflux per unit area at every node that has a cell, over all the
\* links of the node (face width DX, cell area DX * DX); zero elsewhere
\* the links that leave and that enter each node
links_leaving_node ==
  Evaluated([n \in Nodes |-> {l \in Links : node_at_link_tail[l] = n}])
links_entering_node ==
  Evaluated([n \in Nodes |-> {l \in Links : node_at_link_head[l] = n}])

calc_flux_div_at_node(q) ==
  [n \in Nodes |->
     IF n \notin node_at_cell THEN Zero
     ELSE RatDiv(RatSub(SumOver(q, links_leaving_node[n]),
                        SumOver(q, links_entering_node[n])),
                 RatInt(DX))]

number_of_patches == (NROWS - 1) * (NCOLS - 1)
Patches == 0..(number_of_patches - 1)
PatchSW(p) == NodeAt(p \div (NCOLS - 1), p % (NCOLS - 1))
PatchSE(p) == PatchSW(p) + 1
PatchNW(p) == PatchSW(p) + NCOLS
PatchNE(p) == PatchSW(p) + NCOLS + 1
nodes_at_patch(p) == {PatchSW(p), PatchSE(p), PatchNW(p), PatchNE(p)}

patches_at_link ==
  Evaluated([l \in Links |->
               {p \in Patches : /\ node_at_link_tail[l] \in nodes_at_patch(p)
                                /\ node_at_link_head[l] \in nodes_at_patch(p)}])

\* the gradient vector at a patch: the mean of the two link gradients of
\* the patch along each axis
calc_grad_at_patch(vals) ==
  [p \in Patches |->
     [x |-> RatDiv(RatAdd(RatSub(vals[PatchSE(p)], vals[PatchSW(p)]),
                          RatSub(vals[PatchNE(p)], vals[PatchNW(p)])),
                   RatInt(2 * DX)),
      y |-> RatDiv(RatAdd(RatSub(vals[PatchNW(p)], vals[PatchSW(p)]),
                          RatSub(vals[PatchNE(p)], vals[PatchSE(p)])),
                   RatInt(2 * DX))]]

map_mean_of_patch_nodes_to_patch(a) ==
  [p \in Patches |->
     RatDiv(SumOver(a, nodes_at_patch(p)),
            RatInt(Cardinality(nodes_at_patch(p))))]

\* (v_at_patch[patches_at_link] * patches_present_at_link).sum(axis=1)
\*   / num_patches_per_link, with the links that have no patch set to zero
MeanOfPatchesAtLink(v_at_patch) ==
  [l \in Links |->
     LET ps == patches_at_link[l]
     IN  IF ps = {} THEN Zero
         ELSE RatDiv(SumOver(v_at_patch, ps), RatInt(Cardinality(ps)))]

(***************************************************************************)
(* The program's state: the grid (status and fields), the diffusivity      *)
(* array handed to the component (shared with its owner), and the          *)
(* attributes of the LinearDiffuser instance.                              *)
(***************************************************************************)
VARIABLES
  status,              \* grid.status_at_node
  fields,              \* the names of the fields the grid holds
  z,                   \* grid.at_node['topographic__elevation']
  g,                   \* grid.at_link['topographic__gradient']
  qs,                  \* grid.at_link['unit_flux']
  constructed,         \* "none", "ok" (an instance exists), "error" (__init__ raised)
  error,               \* the exception the last failed call raised, or ""
  use_patches,         \* self._use_patches
  kd,                  \* self._kd
  use_patch_kd,        \* self._use_patch_kd: "unset", "True" or "False"
  dt,                  \* self.dt
  CFL_actives_prefactor, \* self._CFL_actives_prefactor
  fixed_grad_nodes,    \* self.fixed_grad_nodes
  fixed_grad_anchors,  \* self.fixed_grad_anchors
  fixed_grad_offsets,  \* self.fixed_grad_offsets
  args,                \* the arguments __init__ was called with
  last,                \* a record of the last call and of the state it started from
  calls,               \* the number of calls made after construction
  total_substeps       \* the number of sub-steps run so far

vars == <<status, fields, z, g, qs, constructed, error, use_patches, kd,
          use_patch_kd, dt, CFL_actives_prefactor, fixed_grad_nodes,
          fixed_grad_anchors, fixed_grad_offsets, args, last, calls,
          total_substeps>>

grid_vars == <<status, fields, z, g, qs>>
self_vars == <<use_patches, kd, use_patch_kd, dt, CFL_actives_prefactor,
               fixed_grad_nodes, fixed_grad_anchors, fixed_grad_offsets>>

\* _ALPHA = 0.15, the time-step stability factor
ALPHA == Rat(3, 20)

values_to_diffuse == "topographic__elevation"

(***************************************************************************)
(* Inputs: boundary classifications, an initial field, diffusivities.      *)
(***************************************************************************)
PerimeterStatus(b) == [n \in Nodes |-> IF IsPerimeter(n) THEN b ELSE CORE_NODE]

\* set_closed_boundaries_at_grid_edges(True, True, True, True)
StatusClosed == PerimeterStatus(CLOSED_BOUNDARY)
\* a new RasterModelGrid: every perimeter node is a fixed-value boundary
StatusOpen == PerimeterStatus(FIXED_VALUE_BOUNDARY)
\* set_fixed_link_boundaries_at_grid_edges(True, True, True, True)
StatusFixedGradient == PerimeterStatus(FIXED_GRADIENT_BOUNDARY)
\* fixed-value boundaries on the perimeter, and a fixed-gradient node
\* between two core nodes
StatusInnerFixedGradient ==
  [StatusOpen EXCEPT ![NodeAt(1, 2)] = FIXED_GRADIENT_BOUNDARY]

\* closed boundaries on the perimeter, and a fixed-value node between two
\* core nodes
StatusInnerFixedValue ==
  [StatusClosed EXCEPT ![NodeAt(1, 2)] = FIXED_VALUE_BOUNDARY]

Statuses == {StatusClosed, StatusFixedGradient, StatusInnerFixedGradient,
             StatusInnerFixedValue}

\* a bump at one interior node over a field that rises along the first row
InitialField ==
  [n \in Nodes |->
     IF n = NodeAt(1, 1) THEN RatInt(2)
     ELSE IF NodeRow(n) = 0 THEN RatInt(NodeCol(n) % 2)
     ELSE Zero]

Size(a) == Cardinality(DOMAIN a)
Uniform(n, v) == [i \in 0..(n - 1) |-> v]
NoArray == Uniform(0, Zero)

KdArray(a) == [tag |-> "array", a |-> a, b |-> NoArray]
KdList(x, y) == [tag |-> "list", a |-> x, b |-> y]
KdFloat(v) == [tag |-> "float", a |-> Uniform(1, v), b |-> NoArray]
KdNone == [tag |-> "none", a |-> NoArray, b |-> NoArray]

\* a per-node diffusivity that is larger in every other column
KdColumns == [n \in Nodes |-> RatInt(1 + (NodeCol(n) % 2))]

NodeKds == {Uniform(number_of_nodes, One), Uniform(number_of_nodes, Zero),
            KdColumns}
LinkKds == {Uniform(number_of_links, One)}

\* arrays whose length is neither the node count nor the link count
BadLengthKds == {Uniform(3, One), Uniform(number_of_links + 1, One)}

KdInputs ==
  {KdNone, KdFloat(One)}
    \cup {KdArray(a) : a \in NodeKds \cup LinkKds \cup BadLengthKds}
    \cup {KdList(Uniform(number_of_nodes, One), Uniform(number_of_nodes, Zero)),
          KdList(Uniform(number_of_nodes, One), Uniform(3, One))}

Methods == {"simple", "resolve_on_patches", "implicit"}

NoCall ==
  [op |-> "none", dt_in |-> Zero, loops |-> 0, step_sizes |-> <<>>,
   z_before |-> InitialField, z_last |-> InitialField,
   patch_ops |-> FALSE, status_changed |-> FALSE,
   prev_op |-> "none", prev_dt_in |-> Zero, prev_z_before |-> InitialField]

Init ==
  /\ status \in Statuses
  /\ fields = {values_to_diffuse}
  /\ z = InitialField
  /\ g = [l \in Links |-> Zero]
  /\ qs = [l \in Links |-> Zero]
  /\ constructed = "none"
  /\ error = ""
  /\ use_patches = FALSE
  /\ kd = KdNone
  /\ use_patch_kd = "unset"
  /\ dt = Zero
  /\ CFL_actives_prefactor = <<>>
  /\ fixed_grad_nodes = <<>>
  /\ fixed_grad_anchors = <<>>
  /\ fixed_grad_offsets = <<>>
  /\ args = [kd |-> KdNone, method |-> "simple"]
  /\ last = NoCall
  /\ calls = 0
  /\ total_substeps = 0

(***************************************************************************)
(* updated_boundary_conditions: the boundary triplet derived from the      *)
(* grid's classification and the field's values.                           *)
(***************************************************************************)
\* lines 261-262, 265: np.in1d(heads, fixed_grad_nodes)
HeadIsFixed(st, heads) ==
  [i \in DOMAIN heads |->
     heads[i] \in {n \in Nodes : st[n] = FIXED_GRADIENT_BOUNDARY}]

\* lines 268-270
TripletOfPairs(vals, nodes, anchors) ==
  [nodes |-> nodes,
   anchors |-> anchors,
   offsets |-> [i \in DOMAIN nodes |->
                  RatSub(vals[nodes[i]], vals[anchors[i]])]]

\* lines 265-267
TripletOfEnds(vals, head_is_fixed, heads, tails) ==
  TripletOfPairs(vals, Where(head_is_fixed, heads, tails),
                 Where(head_is_fixed, tails, heads))

\* lines 263-264
TripletOfLinks(st, vals, fl) ==
  TripletOfEnds(vals, HeadIsFixed(st, TakeAt(node_at_link_head, fl)),
                TakeAt(node_at_link_head, fl), TakeAt(node_at_link_tail, fl))

\* a derivation that takes the head of every fixed link for its fixed node
DerivedTripletHeads(st, vals) ==
  TripletOfPairs(vals, TakeAt(node_at_link_head, fixed_links(st)),
                 TakeAt(node_at_link_tail, fixed_links(st)))

DerivedTriplet(st, vals) == TripletOfLinks(st, vals, fixed_links(st))

(***************************************************************************)
(* __init__                                                                *)
(***************************************************************************)
\* lines 119-148: self._kd and self._use_patch_kd from the argument, or
\* the exception raised
ResolveDiffusivity(arg) ==
  IF arg.tag = "none"
  THEN [error |-> "KeyError", kd |-> arg, use_patch_kd |-> "unset"]
  ELSE IF arg.tag = "float"
  THEN \* len() of a float
       [error |-> "TypeError", kd |-> arg, use_patch_kd |-> "unset"]
  ELSE IF arg.tag = "array"
  THEN IF Size(arg.a) # 2
       THEN [error |-> "", kd |-> arg,
             use_patch_kd |->
               IF Size(arg.a) = number_of_nodes THEN "False"
               ELSE IF Size(arg.a) = number_of_links THEN "True"
               ELSE "unset"]
       ELSE \* the two elements are numbers, whose size is 1
            [error |-> "AssertionError", kd |-> arg, use_patch_kd |-> "unset"]
  ELSE IF Size(arg.a) = number_of_nodes /\ Size(arg.b) = number_of_nodes
  THEN [error |-> "", kd |-> arg, use_patch_kd |-> "True"]
  ELSE [error |-> "AssertionError", kd |-> arg, use_patch_kd |-> "unset"]

\* np.sqrt(self._kd[0]**2 + self._kd[1]**2)
KdMagnitude(k) ==
  [n \in DOMAIN k.a |->
     RatSqrt(RatAdd(RatMul(k.a[n], k.a[n]), RatMul(k.b[n], k.b[n])))]

\* lines 177-187: kd_links
KdLinksAtInit(k) ==
  IF k.tag = "array"
  THEN IF Size(k.a) = number_of_nodes
       THEN map_max_of_link_nodes_to_link(k.a)
       ELSE k.a
  ELSE map_max_of_link_nodes_to_link(KdMagnitude(k))

\* lines 189-192: _ALPHA * length_of_link ** 2 at the active links
CFLActivesPrefactor(al) ==
  [i \in DOMAIN al |->
     RatMul(ALPHA, RatMul(length_of_link(al[i]), length_of_link(al[i])))]

\* lines 194-223: the attributes __init__ sets once kd_links is known, or
\* the exception raised
InitWithLinks(method, st, vals, r, al, kd_links) ==
  IF \E i \in DOMAIN al : al[i] \notin DOMAIN kd_links
  THEN [error |-> "IndexError"]
  ELSE IF al = <<>>
  THEN \* np.nanmin of an empty array
       [error |-> "ValueError"]
  ELSE [error |-> "",
        use_patches |-> (method # "simple"),
        kd |-> r.kd,
        use_patch_kd |-> r.use_patch_kd,
        prefactor |-> CFLActivesPrefactor(al),
        dt |-> SeqMin([i \in DOMAIN al |->
                         RatDiv(CFLActivesPrefactor(al)[i], kd_links[al[i]])]),
        triplet |-> DerivedTriplet(st, vals)]

\* lines 113-187
InitWithKd(method, st, vals, r, al) ==
  IF method \notin {"simple", "resolve_on_patches"}
  THEN [error |-> "AssertionError"]
  ELSE IF r.error # "" THEN [error |-> r.error]
  ELSE InitWithLinks(method, st, vals, r, al, KdLinksAtInit(r.kd))

\* the outcome of __init__: the exception raised, or the attributes set
InitOutcome(arg, method, st, vals) ==
  InitWithKd(method, st, vals, ResolveDiffusivity(arg),
             Evaluated(active_links(st)))

\* __init__ leaves the grid and the instance as its outcome o says
Constructed(o) ==
  IF o.error # ""
  THEN /\ constructed' = "error"
       /\ error' = o.error
       /\ UNCHANGED <<grid_vars, self_vars>>
  ELSE /\ constructed' = "ok"
       /\ error' = ""
       /\ use_patches' = o.use_patches
       /\ kd' = o.kd
       /\ use_patch_kd' = o.use_patch_kd
       /\ CFL_actives_prefactor' = o.prefactor
       /\ dt' = o.dt
       \* add_field(..., noclobber=True): the grid has neither field yet
       /\ fields' = fields \cup {"topographic__gradient", "unit_flux"}
       /\ g' = [l \in Links |-> Zero]
       /\ qs' = [l \in Links |-> Zero]
       /\ fixed_grad_nodes' = o.triplet.nodes
       /\ fixed_grad_anchors' = o.triplet.anchors
       /\ fixed_grad_offsets' = o.triplet.offsets
       /\ UNCHANGED <<status, z>>

Construct(arg, method) ==
  /\ constructed = "none"
  /\ Constructed(InitOutcome(arg, method, status, z))
  /\ args' = [kd |-> arg, method |-> method]
  /\ last' = [NoCall EXCEPT !.op = "construct", !.z_before = z, !.z_last = z]
  /\ UNCHANGED <<calls, total_substeps>>

\* the instance holds the triplet t
TripletSet(t) ==
  /\ fixed_grad_nodes' = t.nodes
  /\ fixed_grad_anchors' = t.anchors
  /\ fixed_grad_offsets' = t.offsets

updated_boundary_conditions ==
  /\ constructed = "ok"
  /\ calls < MaxCalls
  /\ TripletSet(DerivedTriplet(status, z))
  /\ last' = [NoCall EXCEPT !.op = "updated_boundary_conditions",
                            !.z_before = z, !.z_last = z,
                            !.status_changed = last.status_changed]
  /\ calls' = calls + 1
  /\ error' = ""
  /\ UNCHANGED <<grid_vars, constructed, use_patches, kd, use_patch_kd, dt,
                 CFL_actives_prefactor, args, total_substeps>>

(***************************************************************************)
(* diffuse                                                                 *)
(***************************************************************************)
\* lines 287, 297-298: the diffusivity mapped from the nodes onto the links
KdLinksMapped(k) ==
  Evaluated(map_max_of_link_nodes_to_link(
              IF k.tag = "list" THEN KdMagnitude(k) ELSE k.a))

\* lines 284-301: kd_activelinks, aligned with the grid's active links
\* (a scalar is one number), or the exception raised
KdActiveLinks(k, upk, al) ==
  IF k.tag = "array"
  THEN IF upk = "unset" THEN [error |-> "AttributeError", v |-> <<>>]
       ELSE IF upk = "False"
       THEN IF Size(k.a) # number_of_nodes
            THEN [error |-> "AssertionError", v |-> <<>>]
            ELSE [error |-> "", v |-> TakeAt(KdLinksMapped(k), al)]
       ELSE IF Size(k.a) # number_of_links
            THEN [error |-> "AssertionError", v |-> <<>>]
            ELSE [error |-> "", v |-> TakeAt(k.a, al)]
  ELSE IF k.tag = "list"
  THEN [error |-> "", v |-> TakeAt(KdLinksMapped(k), al)]
  ELSE [error |-> "", v |-> <<k.a[0]>>]

\* numpy's broadcasting of two 1-d arrays: equal lengths, or one of length 1
Broadcastable(a, b) == Len(a) = Len(b) \/ Len(a) = 1 \/ Len(b) = 1

\* the step of the last derivation, not derived again
DtLinksStale(pre, ka) == <<dt>>

\* lines 293, 303: self._CFL_actives_prefactor / kd_activelinks
DtLinks(pre, ka) ==
  [i \in 1..(IF Len(pre) = 1 THEN Len(ka) ELSE Len(pre)) |->
     RatDiv(IF Len(pre) = 1 THEN pre[1] ELSE pre[i],
            IF Len(ka) = 1 THEN ka[1] ELSE ka[i])]

\* the ratio rounded up
RepeatsCeil(tstep_ratio) == 0 - RatFloor(RatNeg(tstep_ratio))

\* line 308: int(self.tstep_ratio // 1.)
Repeats(tstep_ratio) == RatFloor(tstep_ratio)

\* what is missing to the next whole number of internal steps
ExtraTimeToNext(tstep_ratio, repeats) == RatSub(RatInt(repeats + 1), tstep_ratio)

\* line 309
ExtraTime(tstep_ratio, repeats) == RatSub(tstep_ratio, RatInt(repeats))

\* the loop run without the test of self.dt
NumberOfLoopsAlways(dt1, repeats) == repeats + 1

\* lines 312-315
NumberOfLoops(dt1, repeats) == IF ~IsInf(dt1) THEN repeats + 1 ELSE 0

\* lines 308-315
PlanOfRepeats(dt1, tstep_ratio, repeats) ==
  [dt |-> dt1,
   repeats |-> repeats,
   extra_time |-> ExtraTime(tstep_ratio, repeats),
   loops |-> NumberOfLoops(dt1, repeats)]

\* lines 307-315: the sub-steps of diffuse(dt_in) with the internal step dt1
StepPlan(dt_in, dt1) ==
  PlanOfRepeats(dt1, RatDiv(dt_in, dt1), Repeats(RatDiv(dt_in, dt1)))

\* every node that has a cell, whatever its class
AllCells(st) == node_at_cell

\* line 281
CoreNodes(st) == node_at_core_cell(st)

\* kd_activelinks as an array on the active links
OnActiveLinks(al, kv) ==
  [l \in Range(al) |->
     IF Len(kv) = 1 THEN kv[1]
     ELSE kv[CHOOSE j \in DOMAIN al : al[j] = l]]

\* what the loop of diffuse works with
ContextOfPlan(st, self, al, kv, plan) ==
  [error |-> "",
   dt |-> plan.dt,
   repeats |-> plan.repeats,
   extra_time |-> plan.extra_time,
   loops |-> plan.loops,
   core_nodes |-> CoreNodes(st),
   active |-> Range(al),
   kd_at |-> Evaluated(OnActiveLinks(al, kv)),
   kd |-> self.kd,
   use_patch_kd |-> self.use_patch_kd,
   use_patches |-> self.use_patches,
   fn |-> self.fixed_grad_nodes,
   fa |-> self.fixed_grad_anchors,
   fo |-> self.fixed_grad_offsets]

\* lines 294, 304: np.nanmin(dt_links)
ContextOfDtLinks(dt_in, st, self, al, kv, dt_links) ==
  IF dt_links = <<>> THEN [error |-> "ValueError"]
  ELSE ContextOfPlan(st, self, al, kv, StepPlan(dt_in, SeqMin(dt_links)))

\* lines 293, 303
ContextOfKd(dt_in, st, self, al, ka) ==
  IF ka.error # "" THEN [error |-> ka.error]
  ELSE IF ~Broadcastable(self.prefactor, ka.v) THEN [error |-> "ValueError"]
  ELSE ContextOfDtLinks(dt_in, st, self, al, ka.v,
                        DtLinks(self.prefactor, ka.v))

\* lines 284-301
ContextOfLinks(dt_in, st, self, al) ==
  ContextOfKd(dt_in, st, self, al,
              KdActiveLinks(self.kd, self.use_patch_kd, al))

\* lines 279-315: what diffuse(dt_in) works with, or the exception raised
DiffuseContext(dt_in, st, self) ==
  ContextOfLinks(dt_in, st, self, Evaluated(active_links(st)))

\* the enforcement without the offsets
EnforceFixedGradientNoOffset(vals, fn, fa, fo) ==
  [n \in Nodes |->
     IF \E i \in DOMAIN fn : fn[i] = n
     THEN vals[fa[CHOOSE j \in DOMAIN fn :
                     /\ fn[j] = n
                     /\ \A k \in DOMAIN fn : fn[k] = n => k <= j]]
     ELSE vals[n]]

\* lines 422-425: vals[fixed_grad_nodes] = vals[fixed_grad_anchors] +
\* fixed_grad_offsets, one batched assignment: the right side is read
\* before anything is written, and the last pair of a repeated node stays
EnforceFixedGradient(vals, fn, fa, fo) ==
  [n \in Nodes |->
     IF \E i \in DOMAIN fn : fn[i] = n
     THEN LET i == CHOOSE j \in DOMAIN fn :
                     /\ fn[j] = n
                     /\ \A k \in DOMAIN fn : fn[k] = n => k <= j
          IN  RatAdd(vals[fa[i]], fo[i])
     ELSE vals[n]]

\* cos(vector_angle - angle_of_link) * vector_mag: the vector (vx, vy) at
\* every link, along the link
AlongLink(vx, vy) ==
  Computed(<<vx, vy>>,
           [l \in Links |->
              RatAdd(RatMul(hozlinkcomp(l), vx[l]),
                     RatMul(vertlinkcomp(l), vy[l]))])

XOf(grad) == [p \in Patches |-> grad[p].x]
YOf(grad) == [p \in Patches |-> grad[p].y]

\* lines 320-341: the patch gradient resolved along every link
ResolvedGradient(grad) ==
  Computed(grad, AlongLink(MeanOfPatchesAtLink(XOf(grad)),
                           MeanOfPatchesAtLink(YOf(grad))))

\* lines 319-345: self.g
GradientAtLinks(s, c) ==
  IF c.use_patches THEN ResolvedGradient(calc_grad_at_patch(s.z))
  ELSE [l \in Links |->
          IF l \in c.active THEN calc_grad_at_link(s.z)[l] ELSE s.g[l]]

\* lines 348-349: self.qs
UnitFlux(s, c, g1) ==
  [l \in Links |->
     IF l \in c.active THEN RatNeg(RatMul(c.kd_at[l], g1[l])) ELSE s.qs[l]]

\* line 352
FluxOutcome(g1, qs1, patch_ops) ==
  Computed(<<g1, qs1>>,
           [g |-> g1, qs |-> qs1,
            dqsds |-> Evaluated(calc_flux_div_at_node(qs1)),
            patch_ops |-> patch_ops])

SimpleFluxOf(s, c, g1) ==
  Computed(g1, FluxOutcome(g1, UnitFlux(s, c, g1), c.use_patches))

\* lines 317-352: the link-based flux; with self._use_patches the gradient
\* is the patch gradient resolved along each link
SimpleFlux(s, c) == SimpleFluxOf(s, c, GradientAtLinks(s, c))

\* lines 377-380: -(np.fabs(self._kd * comp) * dzdx_at_link)
LinkKdFlux(k, horizontal, dzdx_at_link) ==
  Computed(dzdx_at_link,
           [l \in Links |->
              RatNeg(RatMul(RatAbs(RatMul(k[l],
                                          IF horizontal THEN hozlinkcomp(l)
                                          ELSE vertlinkcomp(l))),
                            dzdx_at_link[l]))])

\* lines 387-402: -np.fabs(kd_at_patch) * grad_at_patch, mapped to the links
PatchKdFluxAtLink(kd_at_patch, grad_at_patch) ==
  MeanOfPatchesAtLink(
    Evaluated([p \in Patches |->
                 RatNeg(RatMul(RatAbs(kd_at_patch[p]), grad_at_patch[p]))]))

\* lines 363-402
qs_EW_at_link(c, grad) ==
  IF c.kd.tag # "list"
  THEN LinkKdFlux(c.kd.a, TRUE, MeanOfPatchesAtLink(XOf(grad)))
  ELSE PatchKdFluxAtLink(map_mean_of_patch_nodes_to_patch(c.kd.a), XOf(grad))

\* lines 363-402; line 380 multiplies by dzdx_at_link
qs_NS_at_link(c, grad) ==
  IF c.kd.tag # "list"
  THEN LinkKdFlux(c.kd.a, FALSE, MeanOfPatchesAtLink(XOf(grad)))
  ELSE PatchKdFluxAtLink(map_mean_of_patch_nodes_to_patch(c.kd.b), YOf(grad))

\* lines 403-409; self.g and self.qs are not written
PatchKdFluxOf(s, c, grad) ==
  Computed(grad,
           [g |-> s.g, qs |-> s.qs,
            dqsds |-> Evaluated(calc_flux_div_at_node(
                                  AlongLink(qs_EW_at_link(c, grad),
                                            qs_NS_at_link(c, grad)))),
            patch_ops |-> TRUE])

\* lines 354-409: the flux from diffusivities on links or on patches
PatchKdFlux(s, c) == PatchKdFluxOf(s, c, calc_grad_at_patch(s.z))

\* every sub-step of the full internal step
TimestepFull(c, i) == c.dt

\* lines 411-420: the step size of sub-step i
Timestep(c, i) == IF i = c.repeats THEN RatMul(c.dt, c.extra_time) ELSE c.dt

\* the update as an assignment, = for +=
UpdatedCoreAssigned(vals, core_nodes, dqsds, timestep) ==
  [n \in Nodes |->
     IF n \in core_nodes THEN RatMul(RatNeg(dqsds[n]), timestep)
     ELSE vals[n]]

\* lines 412, 419-420: vals[core_nodes] += dzdt[core_nodes] * timestep
UpdatedCore(vals, core_nodes, dqsds, timestep) ==
  [n \in Nodes |->
     IF n \in core_nodes
     THEN RatAdd(vals[n], RatMul(RatNeg(dqsds[n]), timestep))
     ELSE vals[n]]

\* lines 411-425: the state of the loop after the update by the flux f
SubStepOf(s, c, timestep, f) ==
  Computed(f,
           [z |-> Evaluated(EnforceFixedGradient(
                              Evaluated(UpdatedCore(s.z, c.core_nodes,
                                                    f.dqsds, timestep)),
                              c.fn, c.fa, c.fo)),
            g |-> f.g, qs |-> f.qs,
            n |-> s.n + 1,
            sizes |-> Append(s.sizes, timestep),
            z_last |-> s.z,
            patch_ops |-> s.patch_ops \/ f.patch_ops])

\* lines 317-425: one pass of the loop
SubStep(s, c, i) ==
  SubStepOf(s, c, Timestep(c, i),
            IF c.use_patch_kd # "True" THEN SimpleFlux(s, c)
            ELSE PatchKdFlux(s, c))

RECURSIVE Loop(_, _, _)
\* for i in range(loops), from sub-step i on
Loop(s, c, i) ==
  IF i >= c.loops THEN s
  ELSE Computed(s, Loop(SubStep(s, c, i), c, i + 1))

\* the fields after diffuse(dt_in) has run all its sub-steps
DiffuseResult(c, vals, grad, flux) ==
  Loop([z |-> vals, g |-> grad, qs |-> flux, n |-> 0, sizes |-> <<>>,
        z_last |-> vals, patch_ops |-> FALSE], c, 0)

\* the time steps the owner asks for: a half of, once, one and a half times
\* and twice the internal step of a unit diffusivity
DtRequests == {Rat(3, 40), Rat(3, 20), Rat(9, 40), Rat(3, 10)}

\* a * b, or more than MaxDenominator
CapMul(a, b) == IF a > MaxDenominator \div b THEN MaxDenominator + 1 ELSE a * b

\* the least common multiple of a and d, or more than MaxDenominator
CapLcm(a, d) == CapMul(a \div GCD(a, d), d)

RECURSIVE CommonDenominator(_, _)
\* a common denominator of vals[0..n], or more than MaxDenominator
CommonDenominator(vals, n) ==
  IF n < 0 THEN 1 ELSE CapLcm(vals[n][2], CommonDenominator(vals, n - 1))

RECURSIVE DenominatorAfter(_, _, _)
\* a bound on the common denominator of the field after the sub-steps from
\* i on, from the common denominator d before them: a sub-step divides by
\* the denominator of its step size and, where it averages over patches
\* and their nodes, by 16
DenominatorAfter(d, c, i) ==
  IF i >= c.loops THEN d
  ELSE DenominatorAfter(
         CapMul(CapMul(d, Timestep(c, i)[2]),
                IF c.use_patches \/ c.use_patch_kd = "True" THEN 16 ELSE 1),
         c, i + 1)

\* the attributes of the instance
Self ==
  [kd |-> kd, use_patch_kd |-> use_patch_kd, use_patches |-> use_patches,
   prefactor |-> CFL_actives_prefactor,
   fixed_grad_nodes |-> fixed_grad_nodes,
   fixed_grad_anchors |-> fixed_grad_anchors,
   fixed_grad_offsets |-> fixed_grad_offsets]

\* diffuse returns: the grid holds the result r of the loop
Diffused(dt_in, c, r) ==
  /\ z' = r.z
  /\ g' = r.g
  /\ qs' = r.qs
  /\ last' = [op |-> "diffuse", dt_in |-> dt_in,
              loops |-> r.n, step_sizes |-> r.sizes,
              z_before |-> z, z_last |-> r.z_last,
              patch_ops |-> r.patch_ops,
              status_changed |-> last.status_changed,
              prev_op |-> last.op, prev_dt_in |-> last.dt_in,
              prev_z_before |-> last.z_before]
  /\ total_substeps' = total_substeps + r.n
  /\ dt' = c.dt
  /\ error' = ""

\* diffuse raises, or runs its loop
DiffuseIn(dt_in, c) ==
  IF c.error # ""
  THEN /\ error' = c.error
       /\ last' = [NoCall EXCEPT !.op = "diffuse_raised",
                                 !.dt_in = dt_in,
                                 !.z_before = z, !.z_last = z,
                                 !.status_changed = last.status_changed]
       /\ UNCHANGED <<z, g, qs, dt, total_substeps>>
  ELSE /\ total_substeps + c.loops <= MaxSubsteps
       /\ DenominatorAfter(CommonDenominator(z, number_of_nodes - 1), c, 0)
            <= MaxDenominator
       /\ Diffused(dt_in, c, DiffuseResult(c, z, g, qs))

diffuse(dt_in) ==
  /\ constructed = "ok"
  /\ calls < MaxCalls
  /\ DiffuseIn(dt_in, DiffuseContext(dt_in, status, Self))
  /\ calls' = calls + 1
  /\ UNCHANGED <<status, fields, constructed, use_patches, kd, use_patch_kd,
                 CFL_actives_prefactor, fixed_grad_nodes, fixed_grad_anchors,
                 fixed_grad_offsets, args>>

run_one_step(dt_in) == diffuse(dt_in)

\* the property time_step
time_step == dt

(***************************************************************************)
(* The owner of the grid: it changes the boundary classification, and      *)
(* writes into the diffusivity array it handed to the component.           *)
(***************************************************************************)
SetBoundaryStatus(st) ==
  /\ constructed = "ok"
  /\ calls < MaxCalls
  /\ st # status
  /\ status' = st
  /\ last' = [NoCall EXCEPT !.op = "set_status", !.z_before = z, !.z_last = z,
                            !.status_changed = TRUE]
  /\ calls' = calls + 1
  /\ UNCHANGED <<fields, z, g, qs, constructed, error, self_vars, args,
                 total_substeps>>

SetDiffusivity(a) ==
  /\ constructed = "ok"
  /\ calls < MaxCalls
  /\ kd.tag = "array"
  /\ Size(a) = Size(kd.a)
  /\ a # kd.a
  /\ kd' = [kd EXCEPT !.a = a]
  /\ last' = [NoCall EXCEPT !.op = "set_diffusivity", !.z_before = z,
                            !.z_last = z,
                            !.status_changed = last.status_changed]
  /\ calls' = calls + 1
  /\ UNCHANGED <<grid_vars, constructed, error, use_patches, use_patch_kd, dt,
                 CFL_actives_prefactor, fixed_grad_nodes, fixed_grad_anchors,
                 fixed_grad_offsets, args, total_substeps>>

Next ==
  \/ \E arg \in KdInputs, method \in Methods : Construct(arg, method)
  \/ updated_boundary_conditions
  \/ \E dt_in \in DtRequests : run_one_step(dt_in)
  \/ \E st \in Statuses : SetBoundaryStatus(st)
  \/ \E a \in NodeKds \cup LinkKds \cup {Uniform(number_of_links, Zero)} :
       SetDiffusivity(a)

Spec == Init /\ [][Next]_vars

(***************************************************************************)
(* Properties.  "advance" is diffuse / run_one_step, and the last call is  *)
(* an advance that returned when last.op = "diffuse".                      *)
(***************************************************************************)
Advanced == last.op = "diffuse"

RatLeq(a, b) == ~RatLess(b, a)

PairHolds(i) ==
  z[fixed_grad_nodes[i]] =
    RatAdd(z[fixed_grad_anchors[i]], fixed_grad_offsets[i])

\* no pair's anchor is the fixed node of a pair
AnchorsNotFixed == Range(fixed_grad_anchors) \cap Range(fixed_grad_nodes) = {}

\* no node is the fixed node of two pairs
FixedNodesDistinct ==
  \A i, j \in DOMAIN fixed_grad_nodes :
    fixed_grad_nodes[i] = fixed_grad_nodes[j] => i = j

\* C1, as claimed: after every advance, every boundary pair i has
\* field[fixed_grad_nodes[i]] = field[fixed_grad_anchors[i]] +
\* fixed_grad_offsets[i], when no anchor is itself a fixed node.
C1_EveryPairHolds ==
  (Advanced /\ AnchorsNotFixed) =>
    \A i \in DOMAIN fixed_grad_nodes : PairHolds(i)

\* C1, amended: after every advance, every boundary pair satisfies
\* field[fixed] = field[anchor] + offset, when no anchor is itself a fixed
\* node and no node is the fixed node of two pairs.
C1_PairsOfDistinctNodesHold ==
  (Advanced /\ AnchorsNotFixed /\ FixedNodesDistinct) =>
    \A i \in DOMAIN fixed_grad_nodes : PairHolds(i)

\* an advance with sub-steps has moved a fixed node of one of several
\* pairs on distinct nodes
C1_Witness ==
  /\ Advanced
  /\ last.loops >= 1
  /\ Len(fixed_grad_nodes) >= 2
  /\ AnchorsNotFixed
  /\ FixedNodesDistinct
  /\ \E i \in DOMAIN fixed_grad_nodes :
       z[fixed_grad_nodes[i]] # last.z_before[fixed_grad_nodes[i]]

\* C2: advance(dt_requested) runs floor(dt_requested / dt_internal) + 1
\* sub-steps when dt_internal is finite (the number n of sub-steps has
\* (n - 1) * dt_internal <= dt_requested < n * dt_internal), and none when
\* dt_internal is infinite.
C2_SubstepCount ==
  Advanced =>
    IF IsInf(time_step) THEN last.loops = 0
    ELSE /\ last.loops >= 1
         /\ RatLeq(RatMul(RatInt(last.loops - 1), time_step), last.dt_in)
         /\ RatLess(last.dt_in, RatMul(RatInt(last.loops), time_step))

\* an advance of twice the internal step has run three sub-steps
C2_Witness ==
  /\ Advanced
  /\ ~IsInf(time_step)
  /\ last.dt_in = RatMul(RatInt(2), time_step)
  /\ last.loops = 3

\* C3: in an advance with a finite internal step, every sub-step but the
\* last has the size dt_internal, the last has dt_internal * (ratio -
\* floor(ratio)), and the sizes add up to dt_requested.
C3_StepSizes ==
  (Advanced /\ ~IsInf(time_step)) =>
    LET n == Len(last.step_sizes)
        ratio == RatDiv(last.dt_in, time_step)
        fractional == RatSub(ratio, RatInt(RatFloor(ratio)))
    IN  /\ n >= 1
        /\ \A i \in 1..(n - 1) : last.step_sizes[i] = time_step
        /\ last.step_sizes[n] = RatMul(time_step, fractional)
        /\ SeqSum(last.step_sizes) = last.dt_in

\* an advance has run a full sub-step and then a shorter one
C3_Witness ==
  /\ Advanced
  /\ ~IsInf(time_step)
  /\ Len(last.step_sizes) = 2
  /\ last.step_sizes[1] = time_step
  /\ RatLess(Zero, last.step_sizes[2])
  /\ RatLess(last.step_sizes[2], time_step)

\* every boundary of the mesh is closed, and has been since construction
AllClosed ==
  /\ \A n \in Nodes : status[n] \in {CORE_NODE, CLOSED_BOUNDARY}
  /\ ~last.status_changed

\* the simple scheme with a scalar or a per-node diffusivity
SimpleNodeDiffusivity ==
  /\ ~use_patches
  /\ \/ kd.tag = "float"
     \/ kd.tag = "array" /\ Size(kd.a) = number_of_nodes

CoreSum(vals) == SumOver(vals, {n \in Nodes : status[n] = CORE_NODE})

DiffusivityAtLink(l) ==
  IF Size(kd.a) = number_of_nodes
  THEN RatMax(kd.a[node_at_link_tail[l]], kd.a[node_at_link_head[l]])
  ELSE kd.a[l]

ZeroOnActiveLinks ==
  /\ kd.tag = "array"
  /\ Size(kd.a) \in {number_of_nodes, number_of_links}
  /\ \A l \in Links : IsActiveLink(status, l) => DiffusivityAtLink(l) = Zero

\* C5: when the diffusivity is zero on every active link, the internal
\* step is +infinity and advance(dt) runs no sub-step and leaves the value
\* of every node as it was.
C5_ZeroDiffusivityNoOp ==
  (Advanced /\ ZeroOnActiveLinks) =>
    /\ IsInf(time_step)
    /\ last.loops = 0
    /\ last.step_sizes = <<>>
    /\ z = last.z_before

\* an advance of a positive dt has returned with a zero diffusivity
C5_Witness ==
  /\ Advanced
  /\ ZeroOnActiveLinks
  /\ RatLess(Zero, last.dt_in)
  /\ z = last.z_before

\* a valid diffusivity specification: a scalar, an array of node-count or
\* link-count length, or a pair of node-count arrays
ValidKd(arg) ==
  \/ arg.tag = "float"
  \/ arg.tag = "array" /\ Size(arg.a) \in {number_of_nodes, number_of_links}
  \/ arg.tag = "list" /\ Size(arg.a) = number_of_nodes
                      /\ Size(arg.b) = number_of_nodes

InvalidConfiguration ==
  \/ ~ValidKd(args.kd)
  \/ args.method \notin {"simple", "resolve_on_patches"}

\* C6: construction with an invalid configuration (no diffusivity, an array
\* of neither node nor link count, a pair whose elements are not both of
\* node count, an invalid scheme selector) raises, no instance is obtained,
\* and no field of the mesh has been created or changed.
C6_InvalidConfigurationRaises ==
  (constructed # "none" /\ InvalidConfiguration) =>
    /\ constructed = "error"
    /\ fields = {values_to_diffuse}
    /\ z = InitialField

FixedLinkSet == {l \in Links : IsFixedLink(status, l)}

\* pair i is the pair of the fixed link l
PairOfLink(i, l) ==
  /\ {fixed_grad_nodes[i], fixed_grad_anchors[i]} =
       {node_at_link_tail[l], node_at_link_head[l]}
  /\ fixed_grad_nodes[i] # fixed_grad_anchors[i]
  /\ status[fixed_grad_nodes[i]] = FIXED_GRADIENT_BOUNDARY
  /\ fixed_grad_offsets[i] =
       RatSub(z[fixed_grad_nodes[i]], z[fixed_grad_anchors[i]])

Derived == constructed = "ok" /\ last.op \in {"construct", "updated_boundary_conditions"}

\* C7: after construction and after every updated_boundary_conditions, the
\* triplet has exactly one pair per fixed link of the current
\* classification: its fixed node is the fixed-gradient end of the link,
\* its anchor the other end, its offset the value at the fixed node minus
\* the value at the anchor; there is no other pair.
C7_TripletRecomputed ==
  Derived =>
    /\ Len(fixed_grad_nodes) = Cardinality(FixedLinkSet)
    /\ Len(fixed_grad_anchors) = Len(fixed_grad_nodes)
    /\ Len(fixed_grad_offsets) = Len(fixed_grad_nodes)
    /\ \A l \in FixedLinkSet : \E i \in DOMAIN fixed_grad_nodes : PairOfLink(i, l)
    /\ \A i \in DOMAIN fixed_grad_nodes : \E l \in FixedLinkSet : PairOfLink(i, l)

\* the triplet has been derived again after the classification changed,
\* with fixed links whose fixed node is the head and others whose is the tail
C7_Witness ==
  /\ constructed = "ok"
  /\ last.op = "updated_boundary_conditions"
  /\ last.status_changed
  /\ \E i \in DOMAIN fixed_grad_nodes :
       fixed_grad_nodes[i] > fixed_grad_anchors[i]
  /\ \E i \in DOMAIN fixed_grad_nodes :
       fixed_grad_nodes[i] < fixed_grad_anchors[i]

\* the step is a call of advance that returns
AdvanceStep == calls' = calls + 1 /\ last'.op = "diffuse"

\* C8: advance changes the field only at core nodes and at the fixed nodes
\* of the boundary pairs, and leaves the triplet as it was.
C8_AdvanceFrame ==
  [][AdvanceStep =>
       /\ \A n \in Nodes :
            z'[n] # z[n] =>
              status[n] = CORE_NODE \/ n \in Range(fixed_grad_nodes)
       /\ fixed_grad_nodes' = fixed_grad_nodes
       /\ fixed_grad_anchors' = fixed_grad_anchors
       /\ fixed_grad_offsets' = fixed_grad_offsets]_vars

\* an advance has changed core nodes next to a fixed-value node that has a
\* cell, and fixed nodes of the triplet
C8_Witness ==
  /\ Advanced
  /\ last.loops >= 1
  /\ \E n \in node_at_cell :
       /\ status[n] = FIXED_VALUE_BOUNDARY
       /\ z[n] = last.z_before[n]
       /\ \E m \in {n - 1, n + 1} :
            status[m] = CORE_NODE /\ z[m] # last.z_before[m]
  /\ \E i \in DOMAIN fixed_grad_nodes :
       z[fixed_grad_nodes[i]] # last.z_before[fixed_grad_nodes[i]]

\* the last two calls were advance(dt / 2), advance(dt / 2)
HalvesDone ==
  /\ Advanced
  /\ last.prev_op = "diffuse"
  /\ last.prev_dt_in = last.dt_in

\* d is a whole number of internal steps
ExactMultiple(d) ==
  /\ ~IsInf(time_step)
  /\ RatDiv(d, time_step)[2] = 1
  /\ RatDiv(d, time_step)[1] >= 1

\* the field advance(dt) gives from the state the two halves started from
FullAdvance ==
  DiffuseResult(DiffuseContext(RatMul(RatInt(2), last.dt_in), status, Self),
                last.prev_z_before, g, qs).z

\* C9, as claimed: for every dt that is an exact multiple of the internal
\* step, advance(dt / 2); advance(dt / 2) gives the field advance(dt) gives.
C9_HalvesEqualWhole ==
  (HalvesDone /\ ExactMultiple(RatMul(RatInt(2), last.dt_in))) =>
    z = FullAdvance

\* C9, amended: for every dt of which dt / 2 is an exact multiple of the
\* internal step (dt an even multiple), advance(dt / 2); advance(dt / 2)
\* gives the field advance(dt) gives.
C9_HalvesOfEvenMultiple ==
  (HalvesDone /\ ExactMultiple(last.dt_in)) => z = FullAdvance

\* two advances of a whole number of internal steps each have changed the
\* field
C9_Witness ==
  /\ HalvesDone
  /\ ExactMultiple(last.dt_in)
  /\ last.loops >= 2
  /\ z # last.z_before
  /\ last.z_before # last.prev_z_before

\* C10: with method 'simple' and a scalar, per-node or per-link
\* diffusivity every sub-step sets the flux on every active link to minus
\* the link's diffusivity times (head value - tail value) / link length,
\* and the patch computation runs only with method 'resolve_on_patches'.
C10_SchemeBySelector ==
  (Advanced /\ last.loops >= 1) =>
    /\ last.patch_ops => args.method = "resolve_on_patches"
    /\ (args.method = "simple" /\ kd.tag = "array") =>
         \A l \in Links :
           IsActiveLink(status, l) =>
             qs[l] = RatNeg(RatMul(DiffusivityAtLink(l),
                                   RatDiv(RatSub(last.z_last[node_at_link_head[l]],
                                                 last.z_last[node_at_link_tail[l]]),
                                          length_of_link(l))))

\* the stable step of link l: 0.15 * link_length^2 / diffusivity_link
StableStep(l) ==
  RatDiv(RatMul(Rat(3, 20), RatMul(length_of_link(l), length_of_link(l))),
         DiffusivityAtLink(l))

\* C11: every advance derives the internal step again from the current
\* values of an array diffusivity: after the call, time_step is the
\* minimum over the active links of 0.15 * link_length^2 /
\* diffusivity_link (a per-node diffusivity being the larger of the two
\* end values), and every sub-step but the last had that size.
C11_StepRecomputed ==
  (Advanced /\ kd.tag = "array") =>
    /\ \E l \in Links : IsActiveLink(status, l) /\ time_step = StableStep(l)
    /\ \A l \in Links :
         IsActiveLink(status, l) => RatLeq(time_step, StableStep(l))
    /\ \A i \in 1..(Len(last.step_sizes) - 1) :
         \A l \in Links :
           IsActiveLink(status, l) => RatLeq(last.step_sizes[i], StableStep(l))

\* an advance has run sub-steps after the owner wrote larger values into
\* the diffusivity array the instance was constructed with
C11_Witness ==
  /\ Advanced
  /\ last.prev_op = "set_diffusivity"
  /\ last.loops >= 2
  /\ kd.a = KdColumns
  /\ args.kd.a = Uniform(number_of_nodes, One)
  /\ time_step = Rat(3, 40)

====
